---- MODULE Spec2Model ----
(***************************************************************************)
(* scripts/check_requirements.py: one run of the requirements checker.     *)
(* The state is the interpreter state main() works on (sys.path, main's    *)
(* locals, stdout, the exit status) together with the three files the run  *)
(* reads: setup.py and the two conda manifests.                            *)
(*                                                                         *)
(* A Python str is a sequence of one-character strings, so that            *)
(* str.replace and str.startswith are computed and not assumed.            *)
(***************************************************************************)
EXTENDS Integers, Sequences, FiniteSets

VARIABLES
    pc,                       \* position in main()
    sys_path,                 \* sys.path
    setup_py,                 \* the file <root>/setup.py, as import sees it
    manifest_user,            \* the file <root>/arkouda-env.yml
    manifest_dev,             \* the file <root>/arkouda-env-dev.yml
    requirements,             \* main: requirements = parse_setup_py(root)
    user_requirements,        \* main: requirements["base"]
    dev_requirements,         \* main: requirements["base"] + requirements["dev"]
    conda_user_requirements,  \* main: parse_conda_yaml(root / "arkouda-env.yml")
    conda_dev_requirements,   \* main: parse_conda_yaml(root / "arkouda-env-dev.yml")
    user_match,               \* main: result of the first check_requirements_match
    dev_match,                \* main: result of the second check_requirements_match
    calls,                    \* history: the argument pairs check_requirements_match got
    out,                      \* stdout, one record per printed line
    uncaught,                 \* the traceback of the exception that left main() uncaught
    exit_status               \* the process exit status once pc = "exited"

vars == <<pc, sys_path, setup_py, manifest_user, manifest_dev, requirements,
          user_requirements, dev_requirements, conda_user_requirements,
          conda_dev_requirements, user_match, dev_match, calls, out, uncaught,
          exit_status>>

----------------------------------------------------------------------------
(* Bounds of the input families.                                           *)
MaxReqs  == 2   \* Init: longest list an accessor of setup.py returns
MaxDeps  == 2   \* Init: longest `dependencies` list of a manifest
NormLen  == 1   \* InitNorm: longest list of setup.py, of `dependencies` and of `pip`
YamlDeps == 2   \* InitYaml: longest `dependencies` list of the user manifest
YamlPip  == 1   \* InitYaml: longest nested `pip` list

SeqsUpTo(S, n) == UNION {[1..k -> S] : k \in 0..n}

----------------------------------------------------------------------------
(* Requirement strings.                                                    *)
numpy          == <<"n","u","m","p","y">>
pytest         == <<"p","y","t","e","s","t">>
tables_ge_37   == <<"t","a","b","l","e","s",">","=","3",".","7">>
pytables_ge_37 == <<"p","y","t","a","b","l","e","s",">","=","3",".","7">>
pypytables     == <<"p","y","p","y","t","a","b","l","e","s">>
ipython_eq_80  == <<"i","p","y","t","h","o","n","=","=","8",".","0">>
jupyterlab     == <<"j","u","p","y","t","e","r","l","a","b">>

(* The string literals of the script.                                      *)
IPYTHON  == <<"i","p","y","t","h","o","n">>
PYTABLES == <<"p","y","t","a","b","l","e","s">>
TABLES   == <<"t","a","b","l","e","s">>
JUPYTER  == <<"j","u","p","y","t","e","r">>

----------------------------------------------------------------------------
(* Python built-ins the script uses.                                       *)

\* str.startswith(prefix)
StartsWith(s, prefix) ==
    /\ Len(s) >= Len(prefix)
    /\ SubSeq(s, 1, Len(prefix)) = prefix

\* str.replace(old, new): every non-overlapping occurrence, left to right
RECURSIVE ReplaceFrom(_, _, _, _)
ReplaceFrom(s, old, new, i) ==
    IF i > Len(s) THEN <<>>
    ELSE IF i + Len(old) - 1 <= Len(s) /\ SubSeq(s, i, i + Len(old) - 1) = old
         THEN new \o ReplaceFrom(s, old, new, i + Len(old))
         ELSE <<s[i]>> \o ReplaceFrom(s, old, new, i + 1)

Replace(s, old, new) == ReplaceFrom(s, old, new, 1)

\* set(list)
ToSet(list) == {list[i] : i \in 1..Len(list)}

\* the characters of the requirement strings, in code point order
CodePoints == <<".", "0", "1", "2", "3", "4", "5", "6", "7", "8", "9", "=", ">",
                "a", "b", "c", "d", "e", "f", "g", "h", "i", "j", "k", "l", "m",
                "n", "o", "p", "q", "r", "s", "t", "u", "v", "w", "x", "y", "z">>

Ord(c) == CHOOSE i \in 1..Len(CodePoints) : CodePoints[i] = c

\* s <= t for str: lexicographic by code point, a proper prefix first
RECURSIVE StrLeq(_, _)
StrLeq(s, t) ==
    IF s = <<>> THEN TRUE
    ELSE IF t = <<>> THEN FALSE
    ELSE IF Head(s) = Head(t) THEN StrLeq(Tail(s), Tail(t))
    ELSE Ord(Head(s)) < Ord(Head(t))

\* sorted(set of str)
RECURSIVE Sorted(_)
Sorted(S) ==
    IF S = {} THEN <<>>
    ELSE LET least == CHOOSE x \in S : \A y \in S : StrLeq(x, y)
         IN  <<least>> \o Sorted(S \ {least})

\* one line of stdout: the literal text, the requirement or the exception formatted in
Line(text, req, e) == [text |-> text, req |-> req, e |-> e]

----------------------------------------------------------------------------
(* The files the run reads.                                                *)

\* sys.path when main() starts, and str(root)
SysPath0 == <<"/usr/lib/python3", "/usr/lib/python3/site-packages">>
Root     == "/arkouda"
Other    == "/arkouda/pydoc"

\* How `import setup` ends: "ok", or the exception it (or an accessor) raises.
\* ModuleNotFoundError (no setup.py under root) is a subclass of ImportError.
LoadOutcomes == {"ok", "ModuleNotFoundError", "ImportError", "SyntaxError", "AttributeError"}

IsImportError(e) == e \in {"ModuleNotFoundError", "ImportError"}

\* Whether code of setup.py runs: not when the file is missing or does not compile.
RunsCode(load) == load \in {"ok", "ImportError", "AttributeError"}

\* What executing setup.py does to sys.path before it returns or raises.
\* "insert_front" is sys.path.insert(0, <a directory of its own>).
PathEffects == {"none", "insert_front"}

ScriptPathEffect(effect, path) ==
    IF effect = "insert_front" THEN <<Other>> \o path ELSE path

\* setup.py: install_requires() gives `base`; extras_require() gives a mapping
\* that holds the key "dev" (with the list `dev`) when has_dev.
SetupScript(load, effect, base, has_dev, dev) ==
    [load |-> load, path_effect |-> effect, install_requires |-> base,
     has_dev |-> has_dev, dev |-> dev]

\* The scripts that load: base over base_pool, the dev extra (if any) over dev_pool
LoadingScripts(effects, base_pool, dev_pool, n) ==
    {SetupScript("ok", e, b, FALSE, <<>>) : e \in effects, b \in SeqsUpTo(base_pool, n)}
    \cup {SetupScript("ok", e, b, TRUE, d) :
            e \in effects, b \in SeqsUpTo(base_pool, n), d \in SeqsUpTo(dev_pool, n)}

\* The scripts that do not
FailingScripts(effects) ==
    {SetupScript(l, e, <<>>, FALSE, <<>>) :
        l \in {x \in LoadOutcomes \ {"ok"} : RunsCode(x)}, e \in effects}
    \cup {SetupScript(l, "none", <<>>, FALSE, <<>>) :
            l \in {x \in LoadOutcomes : ~RunsCode(x)}}

\* One item of a manifest's `dependencies` list, as yaml.safe_load gives it:
\* a str, a dict (its keys; the list under "pip" when it has that key), or
\* anything else (an int).
StrItem(s)    == [type |-> "str",  str |-> s,    keys |-> {},          pip |-> <<>>]
PipItem(list) == [type |-> "dict", str |-> <<>>, keys |-> {"pip"},     pip |-> list]
OtherDict     == [type |-> "dict", str |-> <<>>, keys |-> {"channel"}, pip |-> <<>>]
IntItem       == [type |-> "int",  str |-> <<>>, keys |-> {},          pip |-> <<>>]

\* A manifest file: missing, not valid YAML, or the document safe_load returns:
\* None for an empty document, else a mapping (its keys and its `dependencies`).
Manifest(status, type, keys, deps) ==
    [status |-> status, type |-> type, keys |-> keys, dependencies |-> deps]

MissingFile    == Manifest("missing", "none", {}, <<>>)
InvalidYaml    == Manifest("invalid", "none", {}, <<>>)
EmptyDocument  == Manifest("ok", "none", {}, <<>>)
NoDependencies == Manifest("ok", "dict", {"name"}, <<>>)
WithDependencies(deps) == Manifest("ok", "dict", {"name", "dependencies"}, deps)

\* The manifests that list their dependencies, and all manifests
ListingManifests(items, n) == {WithDependencies(d) : d \in SeqsUpTo(items, n)}

Manifests(items, n) ==
    {MissingFile, InvalidYaml, EmptyDocument, NoDependencies}
    \cup ListingManifests(items, n)

----------------------------------------------------------------------------
(* parse_setup_py                                                          *)

\* setup.extras_require().get("dev", [])
ExtrasGetDev(script) == IF script.has_dev THEN script.dev ELSE <<>>

\* [req for req in requirements["dev"] if not req.startswith("ipython")]
NotIpython(req) == ~StartsWith(req, IPYTHON)

RemoveIpython(dev) == SelectSeq(dev, NotIpython)

\* sys.path after line 17, after the import ran, and after the finally clause
PathInserted(path) == <<Root>> \o path

PathPopped(path) == Tail(path)

PathAfterParseSetup(script, path) ==
    PathPopped(ScriptPathEffect(script.path_effect, PathInserted(path)))

\* The mapping parse_setup_py returns when the import succeeds
SetupRequirements(script) ==
    [base |-> script.install_requires, dev |-> RemoveIpython(ExtrasGetDev(script))]

----------------------------------------------------------------------------
(* parse_conda_yaml                                                        *)

\* the loop over env["dependencies"]
RECURSIVE Flatten(_)
Flatten(deps) ==
    IF deps = <<>> THEN <<>>
    ELSE LET dep == Head(deps)
         IN  (IF dep.type = "str" THEN <<dep.str>>
              ELSE IF dep.type = "dict" /\ "pip" \in dep.keys THEN dep.pip
              ELSE <<>>) \o Flatten(Tail(deps))

\* Mutants of the rename: none at all, and the two names swapped.
RenameNothing(req) == req

RenameSwapped(req) == Replace(req, TABLES, PYTABLES)

\* req.replace("pytables", "tables")
RenamePytables(req) == Replace(req, PYTABLES, TABLES)

ConvertPytables(reqs) == [i \in 1..Len(reqs) |-> RenamePytables(reqs[i])]

\* Mutant of the jupyter filter: nothing is removed.
KeepJupyter(reqs) == reqs

\* [req for req in requirements if not req.startswith("jupyter")]
NotJupyter(req) == ~StartsWith(req, JUPYTER)

RemoveJupyter(reqs) == SelectSeq(reqs, NotJupyter)

Normalize(reqs) == RemoveJupyter(ConvertPytables(reqs))

\* The exception parse_conda_yaml raises on this file, "" if it returns:
\* open() and yaml.safe_load raise; `"dependencies" in env` raises on None.
CondaRaises(file) ==
    IF file.status = "missing" THEN "FileNotFoundError"
    ELSE IF file.status = "invalid" THEN "YAMLError"
    ELSE IF file.type = "none" THEN "TypeError"
    ELSE ""

\* The list parse_conda_yaml returns when it raises nothing
CondaRequirements(file) ==
    Normalize(IF "dependencies" \in file.keys THEN Flatten(file.dependencies) ELSE <<>>)

----------------------------------------------------------------------------
(* check_requirements_match                                                *)

OnlyInSetup(setup_reqs, conda_reqs) == ToSet(setup_reqs) \ ToSet(conda_reqs)

OnlyInConda(setup_reqs, conda_reqs) == ToSet(conda_reqs) \ ToSet(setup_reqs)

\* Mutant of the return value: only the setup side is looked at.
RequirementsMatchOneSided(setup_reqs, conda_reqs) ==
    OnlyInSetup(setup_reqs, conda_reqs) = {}

\* the return value
RequirementsMatch(setup_reqs, conda_reqs) ==
    /\ OnlyInSetup(setup_reqs, conda_reqs) = {}
    /\ OnlyInConda(setup_reqs, conda_reqs) = {}

ItemLines(S) == LET sorted == Sorted(S) IN [i \in 1..Len(sorted) |-> Line("  ", sorted[i], "")]

\* the lines it prints
Report(setup_reqs, conda_reqs) ==
    LET only_in_setup == OnlyInSetup(setup_reqs, conda_reqs)
        only_in_conda == OnlyInConda(setup_reqs, conda_reqs)
    IN  (IF only_in_setup # {}
         THEN <<Line("Requirements only in setup.py:", <<>>, "")>> \o ItemLines(only_in_setup)
         ELSE <<>>)
        \o (IF only_in_conda # {}
            THEN <<Line("Requirements only in conda environment.yml:", <<>>, "")>>
                 \o ItemLines(only_in_conda)
            ELSE <<>>)
        \o (IF RequirementsMatch(setup_reqs, conda_reqs)
            THEN <<Line("Requirements match between setup.py and conda environment.yml", <<>>, "")>>
            ELSE <<Line("Requirements do not match.", <<>>, "")>>)

----------------------------------------------------------------------------
(* main                                                                    *)

\* An exception nobody catches: the interpreter prints a traceback on stderr
\* (the exception, the function that raised it, the file it was reading) and
\* the process ends with status 1.
Traceback(e, frame, file) == [type |-> e, frame |-> frame, file |-> file]

NoTraceback == Traceback("", "", "")

Die(e, frame, file) ==
    /\ uncaught' = Traceback(e, frame, file)
    /\ exit_status' = 1
    /\ pc' = "exited"

\* Mutant of ParseSetupPy: the except clause prints and does not exit.
ParseSetupPyNoExit ==
    /\ pc = "parse_setup"
    /\ sys_path' = PathAfterParseSetup(setup_py, sys_path)
    /\ IF setup_py.load = "ok"
       THEN /\ requirements' = SetupRequirements(setup_py)
            /\ user_requirements' = requirements'.base
            /\ dev_requirements' = requirements'.base \o requirements'.dev
            /\ pc' = "parse_user"
            /\ UNCHANGED <<out, uncaught, exit_status>>
       ELSE IF IsImportError(setup_py.load)
       THEN /\ out' = Append(out, Line("Error importing setup.py: ", <<>>, setup_py.load))
            /\ pc' = "parse_user"
            /\ UNCHANGED <<requirements, user_requirements, dev_requirements, uncaught,
                           exit_status>>
       ELSE /\ Die(setup_py.load, "parse_setup_py", "setup.py")
            /\ UNCHANGED <<requirements, user_requirements, dev_requirements, out>>
    /\ UNCHANGED <<setup_py, manifest_user, manifest_dev, conda_user_requirements,
                   conda_dev_requirements, user_match, dev_match, calls>>

\* requirements = parse_setup_py(root), and the two lists main builds from it
ParseSetupPy ==
    /\ pc = "parse_setup"
    /\ sys_path' = PathAfterParseSetup(setup_py, sys_path)
    /\ IF setup_py.load = "ok"
       THEN /\ requirements' = SetupRequirements(setup_py)
            /\ user_requirements' = requirements'.base
            /\ dev_requirements' = requirements'.base \o requirements'.dev
            /\ pc' = "parse_user"
            /\ UNCHANGED <<out, uncaught, exit_status>>
       ELSE IF IsImportError(setup_py.load)
       THEN /\ out' = Append(out, Line("Error importing setup.py: ", <<>>, setup_py.load))
            /\ exit_status' = 1
            /\ pc' = "exited"
            /\ UNCHANGED <<requirements, user_requirements, dev_requirements, uncaught>>
       ELSE /\ Die(setup_py.load, "parse_setup_py", "setup.py")
            /\ UNCHANGED <<requirements, user_requirements, dev_requirements, out>>
    /\ UNCHANGED <<setup_py, manifest_user, manifest_dev, conda_user_requirements,
                   conda_dev_requirements, user_match, dev_match, calls>>

\* Mutant of ParseCondaUser: an exception of parse_conda_yaml is swallowed
\* and the empty list stands in for the manifest.
ParseCondaUserSwallow ==
    /\ pc = "parse_user"
    /\ conda_user_requirements' =
           (IF CondaRaises(manifest_user) = "" THEN CondaRequirements(manifest_user) ELSE <<>>)
    /\ pc' = "parse_dev"
    /\ UNCHANGED <<sys_path, setup_py, manifest_user, manifest_dev, requirements,
                   user_requirements, dev_requirements, conda_dev_requirements,
                   user_match, dev_match, calls, out, uncaught, exit_status>>

\* conda_user_requirements = parse_conda_yaml(root / "arkouda-env.yml")
ParseCondaUser ==
    /\ pc = "parse_user"
    /\ IF CondaRaises(manifest_user) = ""
       THEN /\ conda_user_requirements' = CondaRequirements(manifest_user)
            /\ pc' = "parse_dev"
            /\ UNCHANGED <<uncaught, exit_status>>
       ELSE /\ Die(CondaRaises(manifest_user), "parse_conda_yaml", "arkouda-env.yml")
            /\ UNCHANGED conda_user_requirements
    /\ UNCHANGED <<sys_path, setup_py, manifest_user, manifest_dev, requirements,
                   user_requirements, dev_requirements, conda_dev_requirements,
                   user_match, dev_match, calls, out>>

\* conda_dev_requirements = parse_conda_yaml(root / "arkouda-env-dev.yml")
ParseCondaDev ==
    /\ pc = "parse_dev"
    /\ IF CondaRaises(manifest_dev) = ""
       THEN /\ conda_dev_requirements' = CondaRequirements(manifest_dev)
            /\ pc' = "check_user"
            /\ UNCHANGED <<uncaught, exit_status>>
       ELSE /\ Die(CondaRaises(manifest_dev), "parse_conda_yaml", "arkouda-env-dev.yml")
            /\ UNCHANGED conda_dev_requirements
    /\ UNCHANGED <<sys_path, setup_py, manifest_user, manifest_dev, requirements,
                   user_requirements, dev_requirements, conda_user_requirements,
                   user_match, dev_match, calls, out>>

\* Mutant of CheckUserRequirements: a mismatch skips the dev check.
CheckUserShortCircuit ==
    /\ pc = "check_user"
    /\ out' = out \o <<Line("Checking user requirements...", <<>>, "")>>
                  \o Report(user_requirements, conda_user_requirements)
    /\ user_match' = RequirementsMatch(user_requirements, conda_user_requirements)
    /\ calls' = Append(calls, <<user_requirements, conda_user_requirements>>)
    /\ pc' = (IF user_match' THEN "check_dev" ELSE "finish")
    /\ UNCHANGED <<sys_path, setup_py, manifest_user, manifest_dev, requirements,
                   user_requirements, dev_requirements, conda_user_requirements,
                   conda_dev_requirements, dev_match, uncaught, exit_status>>

\* print("Checking user requirements..."); user_match = check_requirements_match(...)
CheckUserRequirements ==
    /\ pc = "check_user"
    /\ out' = out \o <<Line("Checking user requirements...", <<>>, "")>>
                  \o Report(user_requirements, conda_user_requirements)
    /\ user_match' = RequirementsMatch(user_requirements, conda_user_requirements)
    /\ calls' = Append(calls, <<user_requirements, conda_user_requirements>>)
    /\ pc' = "check_dev"
    /\ UNCHANGED <<sys_path, setup_py, manifest_user, manifest_dev, requirements,
                   user_requirements, dev_requirements, conda_user_requirements,
                   conda_dev_requirements, dev_match, uncaught, exit_status>>

\* print("\nChecking dev requirements..."); dev_match = check_requirements_match(...)
CheckDevRequirements ==
    /\ pc = "check_dev"
    /\ out' = out \o <<Line("\nChecking dev requirements...", <<>>, "")>>
                  \o Report(dev_requirements, conda_dev_requirements)
    /\ dev_match' = RequirementsMatch(dev_requirements, conda_dev_requirements)
    /\ calls' = Append(calls, <<dev_requirements, conda_dev_requirements>>)
    /\ pc' = "finish"
    /\ UNCHANGED <<sys_path, setup_py, manifest_user, manifest_dev, requirements,
                   user_requirements, dev_requirements, conda_user_requirements,
                   conda_dev_requirements, user_match, uncaught, exit_status>>

\* Mutant of Exit: `or` for `and`.
ExitIfAnyMatch ==
    /\ pc = "finish"
    /\ IF user_match \/ dev_match
       THEN /\ out' = Append(out, Line("\nAll requirements match.", <<>>, ""))
            /\ exit_status' = 0
       ELSE /\ out' = Append(out, Line("\nSome requirements do not match.", <<>>, ""))
            /\ exit_status' = 1
    /\ pc' = "exited"
    /\ UNCHANGED <<sys_path, setup_py, manifest_user, manifest_dev, requirements,
                   user_requirements, dev_requirements, conda_user_requirements,
                   conda_dev_requirements, user_match, dev_match, calls, uncaught>>

\* the final if: print the verdict and sys.exit
Exit ==
    /\ pc = "finish"
    /\ IF user_match /\ dev_match
       THEN /\ out' = Append(out, Line("\nAll requirements match.", <<>>, ""))
            /\ exit_status' = 0
       ELSE /\ out' = Append(out, Line("\nSome requirements do not match.", <<>>, ""))
            /\ exit_status' = 1
    /\ pc' = "exited"
    /\ UNCHANGED <<sys_path, setup_py, manifest_user, manifest_dev, requirements,
                   user_requirements, dev_requirements, conda_user_requirements,
                   conda_dev_requirements, user_match, dev_match, calls, uncaught>>

Next ==
    \/ ParseSetupPy
    \/ ParseCondaUser
    \/ ParseCondaDev
    \/ CheckUserRequirements
    \/ CheckDevRequirements
    \/ Exit

\* The interpreter at the call of main(), reading the given files.
Start(scripts, user_files, dev_files) ==
    /\ pc = "parse_setup"
    /\ sys_path = SysPath0
    /\ setup_py \in scripts
    /\ manifest_user \in user_files
    /\ manifest_dev \in dev_files
    /\ requirements = [base |-> <<>>, dev |-> <<>>]
    /\ user_requirements = <<>>
    /\ dev_requirements = <<>>
    /\ conda_user_requirements = <<>>
    /\ conda_dev_requirements = <<>>
    /\ user_match = FALSE
    /\ dev_match = FALSE
    /\ calls = <<>>
    /\ out = <<>>
    /\ uncaught = NoTraceback
    /\ exit_status = 0 - 1

(* Any setup.py and any pair of manifests, over plain requirement names.   *)
PlainItems == {StrItem(numpy), StrItem(pytest)}

Init ==
    Start(FailingScripts(PathEffects)
            \cup LoadingScripts(PathEffects, {numpy}, {pytest, ipython_eq_80}, MaxReqs),
          Manifests(PlainItems, MaxDeps), Manifests(PlainItems, MaxDeps))

Spec == Init /\ [][Next]_vars

(* Scripts that load and manifests that parse, over the names the two      *)
(* normalisations are about; a manifest has plain items or one pip item.   *)
NormSetupPool == {tables_ge_37, pytables_ge_37, ipython_eq_80}
NormCondaPool == {tables_ge_37, pytables_ge_37, jupyterlab}

NormManifests ==
    ListingManifests({StrItem(s) : s \in NormCondaPool}, NormLen)
    \cup {WithDependencies(<<PipItem(l)>>) : l \in SeqsUpTo(NormCondaPool, NormLen)}

InitNorm ==
    Start(LoadingScripts({"none"}, NormSetupPool, NormSetupPool, NormLen),
          NormManifests, NormManifests)

SpecNorm == InitNorm /\ [][Next]_vars

(* One script, any user manifest of any item shape, a few dev manifests.   *)
YamlPool == {pytables_ge_37, pypytables, jupyterlab}

YamlItems ==
    {StrItem(s) : s \in YamlPool}
    \cup {PipItem(l) : l \in SeqsUpTo(YamlPool, YamlPip)}
    \cup {OtherDict, IntItem}

InitYaml ==
    Start(LoadingScripts({"none"}, {pypytables}, {}, 1),
          Manifests(YamlItems, YamlDeps),
          Manifests({StrItem(jupyterlab), PipItem(<<pypytables>>)}, 1))

SpecYaml == InitYaml /\ [][Next]_vars

----------------------------------------------------------------------------
(* Vocabulary of the properties.                                           *)

\* A and B hold the same strings, whatever their order and their repetitions
SameStrings(A, B) ==
    /\ \A i \in 1..Len(A) : \E j \in 1..Len(B) : A[i] = B[j]
    /\ \A j \in 1..Len(B) : \E i \in 1..Len(A) : A[i] = B[j]

\* s contains sub
RECURSIVE ContainsFrom(_, _, _)
ContainsFrom(s, sub, i) ==
    IF i + Len(sub) - 1 > Len(s) THEN FALSE
    ELSE IF SubSeq(s, i, i + Len(sub) - 1) = sub THEN TRUE
    ELSE ContainsFrom(s, sub, i + 1)

Contains(s, sub) == ContainsFrom(s, sub, 1)

\* The file parses and parse_conda_yaml gets through it
ManifestLoads(file) == file.status = "ok" /\ file.type = "dict"

ExtractionsSucceed ==
    setup_py.load = "ok" /\ ManifestLoads(manifest_user) /\ ManifestLoads(manifest_dev)

\* The lines check_requirements_match can print
SummaryTexts == {"Requirements match between setup.py and conda environment.yml",
                 "Requirements do not match."}

ReportTexts == SummaryTexts \cup {"Requirements only in setup.py:",
                                  "Requirements only in conda environment.yml:"}

FinalTexts == {"\nAll requirements match.", "\nSome requirements do not match."}

IsDiagnostic(line) == line.text = "Error importing setup.py: " /\ line.e = setup_py.load

\* The requirement strings a manifest writes down, wherever they stand
RawStrings(file) ==
    {file.dependencies[i].str :
        i \in {k \in 1..Len(file.dependencies) : file.dependencies[k].type = "str"}}
    \cup UNION {ToSet(file.dependencies[i].pip) : i \in 1..Len(file.dependencies)}

----------------------------------------------------------------------------
(* C1: check_requirements_match returns true exactly when its two          *)
(* arguments hold the same set of strings, whatever the order and the      *)
(* duplicates; it returns false in every other case.                       *)
C1_MatchIffSameSet ==
    /\ Len(calls) >= 1 => (user_match <=> SameStrings(calls[1][1], calls[1][2]))
    /\ Len(calls) >= 2 => (dev_match <=> SameStrings(calls[2][1], calls[2][2]))

\* a match of two lists that differ in order and in length
C1_Witness ==
    /\ Len(calls) = 2
    /\ dev_match
    /\ Len(calls[2][1]) = 3
    /\ Len(calls[2][2]) = 2
    /\ calls[2][1][1] # calls[2][2][1]
    /\ ~user_match

(* C2: when the extractions succeed, main exits 0 exactly when both        *)
(* reconciliations matched, the user pair being (base, user manifest) and  *)
(* the dev pair (base with the filtered dev extra, dev manifest); every    *)
(* other run that ends exits 1.                                            *)
C2_ExitStatus ==
    pc = "exited" =>
        IF ExtractionsSucceed
        THEN /\ Len(calls) = 2
             /\ calls[1] = <<setup_py.install_requires, conda_user_requirements>>
             /\ ToSet(calls[2][1]) =
                    ToSet(setup_py.install_requires)
                    \cup {d \in ToSet(ExtrasGetDev(setup_py)) : ~StartsWith(d, IPYTHON)}
             /\ calls[2][2] = conda_dev_requirements
             /\ user_match <=> SameStrings(calls[1][1], calls[1][2])
             /\ dev_match <=> SameStrings(calls[2][1], calls[2][2])
             /\ exit_status = (IF user_match /\ dev_match THEN 0 ELSE 1)
        ELSE exit_status = 1

\* exit 0 with a dev extra that lost its ipython entry
C2_Witness ==
    /\ pc = "exited"
    /\ exit_status = 0
    /\ ExtrasGetDev(setup_py) = <<pytest, ipython_eq_80>>
    /\ Len(conda_dev_requirements) = 2

(* C3: when the extractions succeed the user reconciliation runs first,    *)
(* the dev reconciliation runs whatever the first one returned, and the    *)
(* process exits only after both reports were printed.                     *)
C3_BothReportsInOrder ==
    (pc = "exited" /\ ExtractionsSucceed) =>
        /\ Len(calls) = 2
        /\ out[1].text = "Checking user requirements..."
        /\ out[Len(out)].text \in FinalTexts
        /\ \E u, d, v \in 1..Len(out) :
              /\ 1 < u /\ u < d /\ d < v /\ v < Len(out)
              /\ out[u].text \in SummaryTexts
              /\ out[d].text = "\nChecking dev requirements..."
              /\ out[v].text \in SummaryTexts
              /\ \A k \in 1..Len(out) : out[k].text \in SummaryTexts => k \in {u, v}

\* the dev report was printed after a user mismatch
C3_Witness ==
    /\ pc = "exited"
    /\ ~user_match
    /\ dev_match
    /\ Len(calls) = 2
    /\ \E d \in 1..Len(out) : out[d].text = "\nChecking dev requirements..."

(* C4: when the setup extraction or a manifest extraction fails, the run   *)
(* ends with status 1, no reconciliation is attempted and no line of a     *)
(* reconciliation report is ever printed.                                  *)
C4_NoReconciliationAfterFailure ==
    ~ExtractionsSucceed =>
        /\ calls = <<>>
        /\ \A i \in 1..Len(out) : out[i].text \notin ReportTexts
        /\ pc \notin {"check_user", "check_dev", "finish"}
        /\ pc = "exited" => exit_status = 1

\* the last extraction failed: the dev manifest is not valid YAML
C4_Witness ==
    /\ pc = "exited"
    /\ setup_py.load = "ok"
    /\ ManifestLoads(manifest_user)
    /\ manifest_dev.status = "invalid"
    /\ uncaught = Traceback("YAMLError", "parse_conda_yaml", "arkouda-env-dev.yml")

(* C5, as claimed: however loading setup.py fails, parse_setup_py prints a *)
(* diagnostic naming the cause, the run ends with a non-zero status and no *)
(* manifest is parsed.                                                     *)
C5_DiagnosticForEveryFailure ==
    (pc = "exited" /\ setup_py.load # "ok") =>
        /\ \E i \in 1..Len(out) : IsDiagnostic(out[i])
        /\ exit_status # 0
        /\ conda_user_requirements = <<>> /\ conda_dev_requirements = <<>>

(* C5, amended: parse_setup_py prints its diagnostic and exits 1 when the  *)
(* load raises an ImportError (a missing setup.py included); any other     *)
(* exception leaves parse_setup_py and main uncaught, nothing is printed   *)
(* on stdout and the interpreter ends the run with status 1.  In both      *)
(* cases no manifest is parsed.                                            *)
C5_ImportErrorDiagnosed ==
    setup_py.load # "ok" =>
        /\ pc \in {"parse_setup", "exited"}
        /\ conda_user_requirements = <<>> /\ conda_dev_requirements = <<>>
        /\ pc = "exited" =>
              /\ exit_status = 1
              /\ IF IsImportError(setup_py.load)
                 THEN Len(out) = 1 /\ IsDiagnostic(out[1]) /\ uncaught = NoTraceback
                 ELSE out = <<>> /\ uncaught.type = setup_py.load

\* a missing setup.py was diagnosed
C5_Witness ==
    /\ pc = "exited"
    /\ setup_py.load = "ModuleNotFoundError"
    /\ Len(out) = 1
    /\ out[1].e = "ModuleNotFoundError"
    /\ exit_status = 1

(* C6: once parse_setup_py is over, however it ended, sys.path is what it  *)
(* was before the call, also when setup.py itself changed sys.path.        *)
C6_SysPathRestored ==
    pc # "parse_setup" => sys_path = SysPath0

StripIpython(script) ==
    [script EXCEPT !.dev = SelectSeq(@, LAMBDA r : ~StartsWith(r, IPYTHON))]

StripJupyterItem(item) ==
    [item EXCEPT !.pip = SelectSeq(@, LAMBDA r : ~StartsWith(r, JUPYTER))]

StripJupyter(file) ==
    [file EXCEPT !.dependencies =
        [i \in 1..Len(SelectSeq(@, LAMBDA it : ~(it.type = "str" /\ StartsWith(it.str, JUPYTER))))
            |-> StripJupyterItem(
                  SelectSeq(@, LAMBDA it : ~(it.type = "str" /\ StartsWith(it.str, JUPYTER)))[i])]]

\* <<user result, dev result, exit status>> of the run on these three files
Outcome(script, user_file, dev_file) ==
    LET reqs == SetupRequirements(script)
        um   == RequirementsMatch(reqs.base, CondaRequirements(user_file))
        dm   == RequirementsMatch(reqs.base \o reqs.dev, CondaRequirements(dev_file))
    IN  <<um, dm, IF um /\ dm THEN 0 ELSE 1>>

(* C9: no ipython... string of the dev extra and no jupyter... string of a *)
(* manifest is in a set check_requirements_match compares (an ipython...   *)
(* string is there only when `base` lists it), so the two results and the  *)
(* exit status are those of the run on the same files without these        *)
(* entries.                                                                *)
C9_ExcludedNeverCompared ==
    /\ \A k \in 1..Len(calls) :
          /\ \A s \in ToSet(calls[k][2]) : ~StartsWith(s, JUPYTER)
          /\ \A s \in ToSet(calls[k][1]) :
                StartsWith(s, IPYTHON) => s \in ToSet(setup_py.install_requires)
    /\ pc = "exited" =>
          <<user_match, dev_match, exit_status>> =
              Outcome(StripIpython(setup_py), StripJupyter(manifest_user),
                      StripJupyter(manifest_dev))

\* both exclusions at work in a run that exits 0
C9_Witness ==
    /\ pc = "exited"
    /\ exit_status = 0
    /\ ExtrasGetDev(setup_py) = <<ipython_eq_80>>
    /\ setup_py.install_requires = <<>>
    /\ manifest_user = WithDependencies(<<PipItem(<<jupyterlab>>)>>)
    /\ manifest_dev = WithDependencies(<<StrItem(jupyterlab)>>)

\* The flattening of a `dependencies` list in document order: a str item
\* itself, a pip item's strings in place, nothing for any other item.
RECURSIVE Flattening(_)
Flattening(deps) ==
    IF deps = <<>> THEN <<>>
    ELSE LET last == deps[Len(deps)]
         IN  Flattening(SubSeq(deps, 1, Len(deps) - 1))
             \o (IF last.type = "str" THEN <<last.str>> ELSE last.pip)

(* C10: for every manifest that parses, parse_conda_yaml raises nothing    *)
(* and its list is the flattening of `dependencies` in document order      *)
(* (nothing for a document without `dependencies`), then normalised.       *)
C10_FlattenedWithoutError ==
    (manifest_user.status = "ok" /\ pc \notin {"parse_setup", "parse_user"}) =>
        /\ uncaught.file # "arkouda-env.yml"
        /\ conda_user_requirements = Normalize(Flattening(manifest_user.dependencies))

(* C10, for the documents that are mappings (this much holds of the code). *)
C10_MappingsFlattened ==
    (ManifestLoads(manifest_user) /\ pc \notin {"parse_setup", "parse_user"}) =>
        /\ uncaught.file # "arkouda-env.yml"
        /\ conda_user_requirements = Normalize(Flattening(manifest_user.dependencies))

====
